---- MODULE Spec2Model ----
(***************************************************************************)
(* The source-import pipeline of Miro Community (localtv): the celery      *)
(* tasks of localtv/tasks.py working on the Source / SourceImport / Video  *)
(* rows of localtv/models.  Every worker is a unit in `queue'; a unit's    *)
(* steps are its database operations, so that units interleave the way     *)
(* concurrent celery workers do.                                           *)
(*                                                                         *)
(* SourceImport (models/sources.py:365-384) defines the statuses STARTED,  *)
(* COMPLETE and FAILED only, and Video (models/base.py:202-206) UNAPPROVED,*)
(* ACTIVE, REJECTED and PENDING_THUMBNAIL.  tasks.py reads                 *)
(* import_class.PENDING (line 224) and Video.PENDING (line 170); neither   *)
(* attribute exists, so evaluating them raises AttributeError.             *)
(*                                                                         *)
(* Every task is wrapped by patch_settings (tasks.py:54-89), whose first   *)
(* statement is kwargs.pop('settings').  The .delay() calls of             *)
(* models/sources.py (lines 81-91, 98-101, 431-434, 457-460) pass          *)
(* using=... and no settings, so the units they enqueue end with KeyError  *)
(* in the wrapper.  A task body runs only in a unit called with settings=. *)
(*                                                                         *)
(* video_from_vidscraper_video passes site_pk=site_pk to                   *)
(* Video.from_vidscraper_video (tasks.py:356-360), which hands it on to    *)
(* the model constructor (videos.py:583-601): TypeError, site_pk is no     *)
(* field of Video.                                                         *)
(***************************************************************************)
EXTENDS Integers, Sequences, FiniteSets, Bags, TLC

\* ---- bounds of the model ----
\* the environment gives at most MaxInputs inputs in a run: scheduler ticks,
\* external mark_import_pending calls and records served by the providers
MaxInputs == 3
\* calls of wrapper nested in one process (tasks run eagerly inside a task)
MaxDepth == 3
\* tags of one record
MaxTags == 2
\* inputs of the run of one feed batch: one tick and the records of the feed
BatchInputs == 4
\* number of providers vidscraper.auto_search searches
NSuites == 2
MaxValues == 2
MaxRuns == 5

\* ---- program constants ----
STARTED == "started"
COMPLETE == "complete"
FAILED == "failed"
StatusValues == {STARTED, COMPLETE, FAILED}

UNAPPROVED == 0
ACTIVE == 1
REJECTED == 2
PENDING_THUMBNAIL == 3

\* mark_import_pending / mark_import_complete: "if ....request.retries > 10"
ReconcilerRetryLimit == 10
\* video_from_vidscraper_video: @task(max_retries=6)
ItemMaxRetries == 6

None == -1

\* the two Sources of the site: one Feed and one SavedSearch
FEED == 1
SEARCH == 2
SourceIds == {FEED, SEARCH}

VARIABLES
    sources,       \* Source rows: id -> [kind, status, auto_update,
                   \*                     auto_approve]
    jobs,          \* SourceImport rows, pk = position
    videos,        \* Video rows
    indexes,       \* SourceImportIndex rows
    errors,        \* SourceImportError rows (a bag: rows are append-only)
    queue,         \* units of work in the celery queue or running (a bag)
    ended,         \* how units have terminated: [task, imp, how]
    inputsLeft,    \* inputs the environment may still give
    catalog,       \* the records the remote providers serve
    logDebug,      \* whether the root logger is enabled for DEBUG
    process,       \* a worker process: [environ, wrapped, frames, last]:
                   \* os.environ['DJANGO_SETTINGS_MODULE'], the module of
                   \* settings._wrapped, the calls of wrapper in progress
                   \* (innermost last), how the last call ended
    tagged,        \* the last run of save_m2m on a record's tags: [tags,
                   \* force, items, how]: video.tags, FORCE_LOWERCASE_TAGS,
                   \* the TaggedItem rows of the Video (a bag of tag names)
    haystack,      \* the full-text index: the pks of the Videos in it
    site_locations,       \* SiteLocation rows in the store: site -> value
    SITE_LOCATION_CACHE,  \* the cache of one process: site -> object
    returned,      \* how the last SiteLocation call of the process ended
    original       \* one OriginalVideo and the runs of update() on it

vars == <<sources, jobs, videos, indexes, errors, queue, ended, inputsLeft,
          catalog, logDebug, process, tagged, haystack, site_locations,
          SITE_LOCATION_CACHE, returned, original>>

\* the state of the site apart from the import pipeline
apart == <<haystack, site_locations, SITE_LOCATION_CACHE, returned, original>>

\* what no step of a task body writes
config == <<sources, catalog, logDebug, process, tagged, apart>>

\* ---- rows ----
NoRow == [src |-> 0, status |-> "none", total_videos |-> None,
          videos_imported |-> 0, videos_skipped |-> 0,
          auto_approve |-> FALSE, last_activity |-> FALSE]

\* FeedImport.objects.create(source=self, auto_approve=self.auto_approve)
NewImport(src, auto_approve) ==
    [src |-> src, status |-> STARTED, total_videos |-> None,
     videos_imported |-> 0, videos_skipped |-> 0,
     auto_approve |-> auto_approve, last_activity |-> FALSE]

NoItem == [guid |-> 0, link |-> 0, fault |-> "none"]

\* The records a fetch can produce.  guid / link 0 stand for an empty value;
\* fault "load": vidscraper_video.load() raises in the worker; "title": the
\* loaded record has no title; "media": it has neither an embed code nor a
\* file url.
PlainItem == [guid |-> 0, link |-> 0, fault |-> "none"]
UnloadableItem == [guid |-> 0, link |-> 0, fault |-> "load"]
GuidItem == [guid |-> 1, link |-> 1, fault |-> "none"]
LinkItem == [guid |-> 0, link |-> 1, fault |-> "none"]
NoTitleItem == [guid |-> 1, link |-> 1, fault |-> "title"]
NoMediaItem == [guid |-> 1, link |-> 1, fault |-> "media"]
Items == {PlainItem, UnloadableItem, GuidItem, LinkItem, NoTitleItem,
          NoMediaItem}

\* ---- units of work ----
\* kw: the keyword the unit was called with besides the task's own
\* arguments, "settings" (settings=settings.SETTINGS_MODULE) or "using"
Unit(task, src, imp, suite, idx) ==
    [task |-> task, src |-> src, imp |-> imp, suite |-> suite, idx |-> idx,
     pc |-> "start", retries |-> 0, row |-> NoRow, n |-> 0, flag |-> FALSE,
     item |-> NoItem, kw |-> "settings"]

\* a unit as models/sources.py calls it: using=using, no settings
UsingUnit(task, src, imp, suite, idx) ==
    [Unit(task, src, imp, suite, idx) EXCEPT !.kw = "using"]

Enqueue(q, u) == q (+) SetToBag({u})
Dequeue(q, u) == q (-) SetToBag({u})
Replace(q, u, v) == Enqueue(Dequeue(q, u), v)

RECURSIVE EnqueueAll(_, _)
EnqueueAll(q, us) ==
    IF us = <<>> THEN q ELSE EnqueueAll(Enqueue(q, Head(us)), Tail(us))

InQueue(task) == {u \in BagToSet(queue) : u.task = task}

\* the units of a task whose body runs: patch_settings found its keyword
Called(task) == {u \in InQueue(task) : u.kw = "settings"}

\* mark_import_complete.delay(import_app_label, import_model, import_pk)
CompleteUnit(imp) == UsingUnit("mark_import_complete", 0, imp, 0, 0)

\* the log of the units that ended other than by a normal return at the end
\* of their work: an early return ("skipped") or the exception raised
End(u, how) ==
    IF how = "ok" THEN ended
    ELSE ended \cup {[task |-> u.task, src |-> u.src, imp |-> u.imp,
                      how |-> how]}

\* celery's retry(): the same unit again, request.retries + 1.  The counter is
\* only ever compared with the limit, so it saturates one above it.
Retry(u, limit) ==
    [u EXCEPT !.pc = "start", !.row = NoRow,
              !.retries = IF u.retries > limit THEN u.retries
                          ELSE u.retries + 1]

JobIds == 1..Len(jobs)

\* the lookup by primary key alone, whatever the status of the job
HasStarted_any_status(imp) == imp \in JobIds

\* import_class._default_manager.get(pk=import_pk, status=import_class.STARTED)
HasStarted(imp) == imp \in JobIds /\ jobs[imp].status = STARTED

\* the existence check looking for the wrong status
StartedOf_wrong_status(src) ==
    {j \in JobIds : jobs[j].src = src /\ jobs[j].status = COMPLETE}

\* FeedImport.objects.get(source=self, status=FeedImport.STARTED)
StartedOf(src) == {j \in JobIds : jobs[j].src = src /\ jobs[j].status = STARTED}

\* ---- Init ----
\* One Feed and one SavedSearch, the ones in `autos' set to update
\* automatically.
InitImport(autos, inputs, vs, approve, feed_status) ==
    /\ sources = [s \in SourceIds |->
                    [kind |-> IF s = FEED THEN "feed" ELSE "search",
                     status |-> feed_status,
                     auto_update |-> (s \in autos),
                     auto_approve |-> (s = SEARCH \/ approve)]]
    /\ jobs = <<>>
    /\ videos = vs
    /\ indexes = {}
    /\ errors = EmptyBag
    /\ queue = EmptyBag
    /\ ended = {}
    /\ inputsLeft = inputs
    /\ catalog = Items
    /\ logDebug \in BOOLEAN
    /\ process = [environ |-> "site_a", wrapped |-> "site_a",
                  frames |-> <<>>, last |-> "none"]
    /\ tagged = [tags |-> <<>>, force |-> FALSE, items |-> EmptyBag,
                 how |-> "none"]

\* the full-text index holds the ACTIVE Videos
InitHaystack == haystack = {v.id[3] : v \in {w \in videos : w.status = ACTIVE}}

\* the sites of the installation: the one of the process and another
Sites == {1, 2}

\* the contents a SiteLocation object, and a name, can have
SiteValues == 1..MaxValues

\* every site has its SiteLocation row, the cache of the process is empty
\* (0: no row, no entry)
InitSiteLocation ==
    /\ site_locations = [s \in Sites |-> 1]
    /\ SITE_LOCATION_CACHE = [s \in Sites |-> 0]
    /\ returned = [call |-> "none", site |-> 0, value |-> 0, how |-> "none"]

\* OriginalVideo.remote_video_was_deleted (models/videos.py:76)
VIDEO_ACTIVE == 0
VIDEO_DELETED == 1
VIDEO_DELETE_PENDING == 2

\* an OriginalVideo as created (remote_video_was_deleted default
\* VIDEO_ACTIVE), no run of update() yet
\* name: the title the OriginalVideo recorded; video_name: the name of its
\* Video; notices: the deleted-notifications sent; runs: the runs of
\* update(); streak: how many runs in a row found the remote video deleted,
\* counted to 3; last: what the last run did
NewOriginal(video_name) ==
    [remote_video_was_deleted |-> VIDEO_ACTIVE, name |-> 1,
     video_name |-> video_name, notices |-> 0, runs |-> 0, streak |-> 0,
     last |-> "none"]

InitOriginal == original = NewOriginal(1)

InitRows(autos, inputs, vs, approve, feed_status) ==
    /\ InitImport(autos, inputs, vs, approve, feed_status)
    /\ InitHaystack
    /\ InitSiteLocation
    /\ InitOriginal

\* no Video on the site yet
InitWith(autos, inputs) == InitRows(autos, inputs, {}, FALSE, ACTIVE)

Init == \E auto \in SourceIds : InitWith({auto}, MaxInputs)

\* the Feed alone, for the runs with external mark_import_pending calls
InitPending == InitWith({FEED}, MaxInputs)

\* the Feed alone, one batch
InitBatch == InitWith({FEED}, BatchInputs)

\* the Feed alone, set to approve automatically
InitApprove == InitRows({FEED}, MaxInputs, {}, TRUE, ACTIVE)

\* one Source updated automatically, the Feed ACTIVE or not
InitTick ==
    \E auto \in SourceIds, st \in {ACTIVE, UNAPPROVED} :
       InitRows({auto}, MaxInputs, {}, FALSE, st)

\* a Feed just added to the site: not ACTIVE yet
InitNewFeed == InitRows({FEED}, MaxInputs, {}, FALSE, UNAPPROVED)

\* "when_approved=now if status == cls.ACTIVE else None"
\* (models/videos.py:592): TRUE stands for a timestamp, FALSE for NULL
WhenApproved(status) == status = ACTIVE

\* Videos the site has before the run: one of this site and one of another
\* site, each with the guid and link of GuidItem.  The Video of this site is
\* ACTIVE or REJECTED.
SiteVideo(st) ==
    [id |-> <<0, 0, 1>>, site |-> 1, guid |-> 1, link |-> 1, status |-> st,
     when_approved |-> WhenApproved(st)]
OtherSiteVideo ==
    [id |-> <<0, 0, 2>>, site |-> 2, guid |-> 1, link |-> 1, status |-> ACTIVE,
     when_approved |-> WhenApproved(ACTIVE)]

\* a REJECTED Video of this site with the guid of GuidItem and another link,
\* and an ACTIVE Video of this site with the link of GuidItem and another
\* guid
RejectedGuidVideo ==
    [id |-> <<0, 0, 1>>, site |-> 1, guid |-> 1, link |-> 2,
     status |-> REJECTED, when_approved |-> WhenApproved(REJECTED)]
ActiveLinkVideo ==
    [id |-> <<0, 0, 2>>, site |-> 1, guid |-> 2, link |-> 1,
     status |-> ACTIVE, when_approved |-> WhenApproved(ACTIVE)]

\* the Video tables the per-item runs start from: a Video of another site
\* alone, a Video of this site, a REJECTED Video of this site beside the
\* other site's, a REJECTED guid match beside an ACTIVE link match
ExistingVideos ==
    {{OtherSiteVideo}, {SiteVideo(ACTIVE)},
     {SiteVideo(REJECTED), OtherSiteVideo},
     {RejectedGuidVideo, ActiveLinkVideo}}

\* the runs of the per-item task on Feed imports: some Videos there already
InitItems ==
    \E vs \in ExistingVideos : InitRows({FEED}, MaxInputs, vs, FALSE, ACTIVE)

\* the full-text index beside the Videos of one of the tables
InitIndex ==
    \E vs \in ExistingVideos : InitRows({}, MaxInputs, vs, FALSE, ACTIVE)

\* a process with an empty cache; a site has its SiteLocation row or none
InitSites ==
    /\ InitImport({}, MaxInputs, {}, FALSE, ACTIVE)
    /\ InitHaystack
    /\ InitOriginal
    /\ site_locations \in [Sites -> 0..1]
    /\ SITE_LOCATION_CACHE = [s \in Sites |-> 0]
    /\ returned = [call |-> "none", site |-> 0, value |-> 0, how |-> "none"]

\* an OriginalVideo whose Video has the recorded name or was renamed on the
\* site
InitOriginalVideo ==
    /\ InitImport({}, MaxInputs, {}, FALSE, ACTIVE)
    /\ InitHaystack
    /\ InitSiteLocation
    /\ \E n \in SiteValues : original = NewOriginal(n)

\* the runs of the per-item task on SavedSearch imports
InitSearchItems == InitWith({SEARCH}, MaxInputs)

\* ---- update_sources (tasks.py:92-101) ----
\* the selection leaving out every Source that has a FAILED job
AutoUpdated_without_failed ==
    {s \in SourceIds :
        /\ sources[s].auto_update
        /\ (sources[s].kind = "feed" => sources[s].status = ACTIVE)
        /\ \A j \in JobIds : jobs[j].src = s => jobs[j].status # FAILED}

AutoUpdated ==
    {s \in SourceIds :
        /\ sources[s].auto_update
        /\ (sources[s].kind = "feed" => sources[s].status = ACTIVE)}

\* the tick with the Feed selected by auto_update alone
update_sources_any_status ==
    /\ inputsLeft > 0
    /\ inputsLeft' = inputsLeft - 1
    /\ queue' = (IF sources[FEED].auto_update
                 THEN Enqueue(queue, Unit("feed_update", FEED, 0, 0, 0))
                 ELSE queue)
                (+)
                (IF SEARCH \in AutoUpdated
                 THEN SetToBag({Unit("search_update", SEARCH, 0, 0, 0)})
                 ELSE EmptyBag)
    /\ UNCHANGED <<jobs, videos, indexes, errors, ended, config>>

update_sources ==
    /\ inputsLeft > 0
    /\ inputsLeft' = inputsLeft - 1
    /\ queue' = (IF FEED \in AutoUpdated
                 THEN Enqueue(queue, Unit("feed_update", FEED, 0, 0, 0))
                 ELSE queue)
                (+)
                (IF SEARCH \in AutoUpdated
                 THEN SetToBag({Unit("search_update", SEARCH, 0, 0, 0)})
                 ELSE EmptyBag)
    /\ UNCHANGED <<jobs, videos, indexes, errors, ended, config>>

\* ---- the wrapper of patch_settings in one process (tasks.py:62-88) ----
\* the settings modules a call can name: two that the process can import
\* and one that it cannot
Importable == {"site_a", "site_b"}
SettingsModules == Importable \cup {"no_such_module"}

\* lines 63-81, up to the call of func.  os.environ is assigned before
\* Settings(new_settings_module) is built, and both before the try: when
\* the module cannot be imported the call ends with ImportError there.
wrapper_enter ==
    /\ Len(process.frames) < MaxDepth
    /\ \E new_settings_module \in SettingsModules :
          LET old_settings_module == process.wrapped
              frame == [settings |-> new_settings_module,
                        old_settings_module |-> old_settings_module,
                        old_settings |-> process.wrapped,
                        environ_before |-> process.environ,
                        wrapped_before |-> process.wrapped]
          IN IF new_settings_module = old_settings_module
                \/ new_settings_module \in Importable
             THEN process' = [process EXCEPT
                                !.environ = new_settings_module,
                                !.wrapped = new_settings_module,
                                !.frames = Append(@, frame)]
             ELSE process' = [process EXCEPT
                                !.environ = new_settings_module,
                                !.last = "ImportError"]
    /\ UNCHANGED <<sources, jobs, videos, indexes, errors, queue, ended,
                   inputsLeft, catalog, logDebug, tagged, apart>>

\* lines 82-88: func returns, raises or signals a retry, and the finally
\* block puts back what the call saved
wrapper_exit ==
    /\ process.frames # <<>>
    /\ \E how \in {"return", "raise", "retry"} :
          LET frame == process.frames[Len(process.frames)]
          IN process' = [environ |-> frame.old_settings_module,
                         wrapped |-> frame.old_settings,
                         frames |-> SubSeq(process.frames, 1,
                                           Len(process.frames) - 1),
                         last |-> how]
    /\ UNCHANGED <<sources, jobs, videos, indexes, errors, queue, ended,
                   inputsLeft, catalog, logDebug, tagged, apart>>

\* ---- the tags in save_m2m (models/videos.py:622-632) ----
\* A tag string: its letters folded to lowercase (name, "" for none),
\* whether it has an uppercase letter, whether it has whitespace around it.
TagStrings ==
    {t \in [name : {"", "a", "b"}, upper : BOOLEAN, pad : BOOLEAN] :
        t.name = "" => ~t.upper}

\* str.strip() and str.lower()
strip(t) == [t EXCEPT !.pad = FALSE]
lower(t) == [t EXCEPT !.upper = FALSE]

\* set(tag.strip() for tag in video.tags if tag.strip())
StrippedTags(tags) ==
    {strip(tags[i]) : i \in {k \in DOMAIN tags : strip(tags[k]).name # ""}}

\* the name the loop looks the Tag up by
TagName(t, force) == IF force THEN lower(t) ELSE t

\* one TaggedItem.create per element of the set
TaggedItems(ts, force) ==
    [n \in {TagName(t, force) : t \in ts} |->
        Cardinality({t \in ts : TagName(t, force) = n})]

\* The loop over the set.  A second create for one Tag and one Video either
\* adds a second row or, under a uniqueness constraint of the tagging
\* table, raises IntegrityError with the loop cut short.
save_m2m ==
    \E n \in 0..MaxTags, force \in BOOLEAN :
       \E tags \in [1..n -> TagStrings] :
          LET ts == StrippedTags(tags)
              all == TaggedItems(ts, force)
          IN \/ tagged' = [tags |-> tags, force |-> force, items |-> all,
                           how |-> "ok"]
             \/ /\ \E m \in DOMAIN all : all[m] > 1
                /\ \E done \in SUBSET ts :
                      /\ \A m \in DOMAIN TaggedItems(done, force) :
                            TaggedItems(done, force)[m] = 1
                      /\ \E t \in ts \ done, d \in done :
                            TagName(t, force) = TagName(d, force)
                      /\ tagged' = [tags |-> tags, force |-> force,
                                    items |-> TaggedItems(done, force),
                                    how |-> "IntegrityError"]
    /\ UNCHANGED <<sources, jobs, videos, indexes, errors, queue, ended,
                   inputsLeft, catalog, logDebug, process, apart>>

\* ---- Source.auto_approve (models/sources.py:42) ----
\* an administrator edits the Source: auto_approve flipped and saved
Source_save_auto_approve ==
    /\ inputsLeft > 0
    /\ inputsLeft' = inputsLeft - 1
    /\ \E s \in SourceIds :
          /\ sources[s].auto_update
          /\ sources' = [sources EXCEPT ![s].auto_approve = ~@]
    /\ UNCHANGED <<jobs, videos, indexes, errors, queue, ended, catalog,
                   logDebug, process, tagged, apart>>

\* ---- patch_settings (tasks.py:54-89) ----
\* new_settings_module = kwargs.pop('settings'): KeyError for a unit called
\* without the keyword, before the task body is entered
patch_settings ==
    \E u \in BagToSet(queue) :
       /\ u.kw # "settings"
       /\ queue' = Dequeue(queue, u)
       /\ ended' = End(u, "KeyError")
       /\ UNCHANGED <<jobs, videos, indexes, errors, inputsLeft, config>>

\* ---- feed_update (tasks.py:104-113) called directly, with settings= ----
feed_update_delay ==
    /\ inputsLeft > 0
    /\ inputsLeft' = inputsLeft - 1
    /\ queue' = Enqueue(queue, Unit("feed_update", FEED, 0, 0, 0))
    /\ UNCHANGED <<jobs, videos, indexes, errors, ended, config>>

\* ---- SourceImport.handle_error (models/sources.py:403-434) ----
\* logging.debug(message, with_exception=True) passes an unknown keyword to
\* Logger._log when the logger is enabled for DEBUG: TypeError, before the
\* error row is created.
HandleErrorRaises(with_exception) == with_exception /\ logDebug

ErrorRow(imp, is_skip) == [source_import |-> imp, is_skip |-> is_skip]

\* ---- Source.update (models/sources.py:57-101) ----
\* the loop: one video_from_vidscraper_video.delay per record of the sequence
RECURSIVE ItemUnits(_, _, _)
ItemUnits(imp, suite, n) ==
    IF n = 0 THEN <<>>
    ELSE Append(ItemUnits(imp, suite, n - 1),
                UsingUnit("video_from_vidscraper_video", 0, imp, suite, n))

\* what SavedSearch.update does after one provider sequence: the next
\* sequence, or the end of the loop
AfterSuite(u) ==
    IF u.suite < NSuites
    THEN [u EXCEPT !.pc = "load", !.suite = u.suite + 1]
    ELSE [u EXCEPT !.pc = "finish"]

\* .update(total_videos=total_videos), then mark_import_complete.delay(...)
Source_update_total ==
    \E u \in BagToSet(queue) :
       /\ u.task \in {"feed_update", "search_update"}
       /\ u.pc = "total"
       /\ jobs' = [jobs EXCEPT ![u.imp].total_videos = u.n]
       /\ IF u.task = "feed_update"
          THEN /\ queue' = Enqueue(Dequeue(queue, u), CompleteUnit(u.imp))
               /\ ended' = End(u, "ok")
          ELSE /\ queue' = Enqueue(Replace(queue, u, AfterSuite(u)),
                                   CompleteUnit(u.imp))
               /\ UNCHANGED ended
       /\ UNCHANGED <<videos, indexes, errors, inputsLeft, config>>

\* ---- Feed.update (models/sources.py:153-197), run by feed_update ----
\* FeedImport.objects.get(source=self, status=FeedImport.STARTED)
Feed_update_check ==
    \E u \in InQueue("feed_update") :
       /\ u.pc = "start"
       /\ IF StartedOf(u.src) = {}
          THEN /\ queue' = Replace(queue, u, [u EXCEPT !.pc = "create"])
               /\ UNCHANGED ended
          ELSE /\ queue' = Dequeue(queue, u)
               /\ ended' = End(u, IF Cardinality(StartedOf(u.src)) = 1
                                  THEN "skipped"
                                  ELSE "MultipleObjectsReturned")
       /\ UNCHANGED <<jobs, videos, indexes, errors, inputsLeft, config>>

\* the job created without the copy of the Source's auto_approve
Feed_update_create_no_snapshot ==
    \E u \in InQueue("feed_update") :
       /\ u.pc = "create"
       /\ jobs' = Append(jobs, NewImport(u.src, FALSE))
       /\ queue' = Replace(queue, u,
                     [u EXCEPT !.pc = "load", !.imp = Len(jobs) + 1,
                               !.row = NewImport(u.src, FALSE)])
       /\ UNCHANGED <<videos, indexes, errors, ended, inputsLeft, config>>

Feed_update_create ==
    \E u \in InQueue("feed_update") :
       /\ u.pc = "create"
       /\ jobs' = Append(jobs, NewImport(u.src, sources[u.src].auto_approve))
       /\ queue' = Replace(queue, u,
                     [u EXCEPT !.pc = "load", !.imp = Len(jobs) + 1,
                               !.row = NewImport(u.src,
                                                 sources[u.src].auto_approve)])
       /\ UNCHANGED <<videos, indexes, errors, ended, inputsLeft, config>>

\* video_iter.load(): raises, or gives a sequence of n records
Feed_update_load ==
    \E u \in InQueue("feed_update") :
       /\ u.pc = "load"
       /\ \/ /\ queue' = Replace(queue, u, [u EXCEPT !.pc = "failed"])
             /\ UNCHANGED inputsLeft
          \/ \E n \in 0..inputsLeft :
                /\ queue' = EnqueueAll(
                              Replace(queue, u, [u EXCEPT !.pc = "total",
                                                          !.n = n]),
                              ItemUnits(u.imp, 0, n))
                /\ inputsLeft' = inputsLeft - n
       /\ UNCHANGED <<jobs, videos, indexes, errors, ended, config>>

\* except Exception: feed_import.status = FAILED; feed_import.save();
\* feed_import.handle_error(..., with_exception=True); return
Feed_update_failed ==
    \E u \in InQueue("feed_update") :
       /\ u.pc = "failed"
       /\ jobs' = [jobs EXCEPT ![u.imp] =
                     [u.row EXCEPT !.status = FAILED, !.last_activity = TRUE]]
       /\ queue' = Dequeue(queue, u)
       /\ IF HandleErrorRaises(TRUE)
          THEN /\ ended' = End(u, "TypeError")
               /\ UNCHANGED errors
          ELSE /\ ended' = End(u, "ok")
               /\ errors' = errors (+) SetToBag({ErrorRow(u.imp, FALSE)})
       /\ UNCHANGED <<videos, indexes, inputsLeft, config>>

\* ---- SavedSearch.update (models/sources.py:262-310), by search_update ----
SavedSearch_update_check ==
    \E u \in InQueue("search_update") :
       /\ u.pc = "start"
       /\ IF StartedOf(u.src) = {}
          THEN /\ queue' = Replace(queue, u, [u EXCEPT !.pc = "create"])
               /\ UNCHANGED ended
          ELSE /\ queue' = Dequeue(queue, u)
               /\ ended' = End(u, IF Cardinality(StartedOf(u.src)) = 1
                                  THEN "skipped"
                                  ELSE "MultipleObjectsReturned")
       /\ UNCHANGED <<jobs, videos, indexes, errors, inputsLeft, config>>

\* create the SearchImport; should_end = True; the first provider is next
SavedSearch_update_create ==
    \E u \in InQueue("search_update") :
       /\ u.pc = "create"
       /\ jobs' = Append(jobs, NewImport(u.src, sources[u.src].auto_approve))
       /\ queue' = Replace(queue, u,
                     [u EXCEPT !.pc = "load", !.imp = Len(jobs) + 1,
                               !.suite = 1, !.flag = TRUE,
                               !.row = NewImport(u.src,
                                                 sources[u.src].auto_approve)])
       /\ UNCHANGED <<videos, indexes, errors, ended, inputsLeft, config>>

\* one turn of "for video_iter in searches.values()": load raises ->
\* handle_error(..., with_exception=True); continue.  Otherwise
\* should_end = False and Source.update runs on the sequence.
SavedSearch_update_load ==
    \E u \in InQueue("search_update") :
       /\ u.pc = "load"
       /\ \/ /\ IF HandleErrorRaises(TRUE)
                THEN /\ queue' = Dequeue(queue, u)
                     /\ ended' = End(u, "TypeError")
                     /\ UNCHANGED errors
                ELSE /\ queue' = Replace(queue, u, AfterSuite(u))
                     /\ errors' = errors (+)
                                  SetToBag({ErrorRow(u.imp, FALSE)})
                     /\ UNCHANGED ended
             /\ UNCHANGED inputsLeft
          \/ /\ \E n \in 0..inputsLeft :
                   /\ queue' = EnqueueAll(
                                 Replace(queue, u, [u EXCEPT !.pc = "total",
                                                             !.n = n,
                                                             !.flag = FALSE]),
                                 ItemUnits(u.imp, u.suite, n))
                   /\ inputsLeft' = inputsLeft - n
             /\ UNCHANGED <<errors, ended>>
       /\ UNCHANGED <<jobs, videos, indexes, config>>

\* if should_end: status = FAILED; search_import.save()
SavedSearch_update_finish ==
    \E u \in InQueue("search_update") :
       /\ u.pc = "finish"
       /\ IF u.flag
          THEN jobs' = [jobs EXCEPT ![u.imp] =
                          [u.row EXCEPT !.status = FAILED,
                                        !.last_activity = TRUE]]
          ELSE UNCHANGED jobs
       /\ queue' = Dequeue(queue, u)
       /\ ended' = End(u, "ok")
       /\ UNCHANGED <<videos, indexes, errors, inputsLeft, config>>

\* ---- video_from_vidscraper_video (tasks.py:265-369) ----
SITE_ID == 1

SiteVideos == {v \in videos : v.site = SITE_ID}
GuidVideos(it) == {v \in SiteVideos : it.guid # 0 /\ v.guid = it.guid}
LinkVideos(it) == {v \in SiteVideos : it.link # 0 /\ v.link = it.link}
Rejected(vs) == {v \in vs : v.status = REJECTED}

\* the rows "if clear_rejected: ....filter(status=Video.REJECTED).delete()"
\* removes on the way to the duplicate checks
Purged(it) ==
    IF GuidVideos(it) \ Rejected(GuidVideos(it)) # {}
    THEN Rejected(GuidVideos(it))
    ELSE Rejected(GuidVideos(it)) \cup Rejected(LinkVideos(it))

IsDuplicate(it) ==
    \/ GuidVideos(it) \ Rejected(GuidVideos(it)) # {}
    \/ LinkVideos(it) \ Rejected(LinkVideos(it)) # {}

\* the counter written from the value the worker holds in memory, the
\* row as it was created, in the place of the F() expression
SkipJobs_read_modify_write(js, imp) ==
    [js EXCEPT ![imp].videos_skipped = NewImport(0, FALSE).videos_skipped + 1]

\* handle_error(..., is_skip=True): the error row, videos_skipped + 1 by an
\* F() update, mark_import_complete.delay
SkipJobs(js, imp) == [js EXCEPT ![imp].videos_skipped = @ + 1]

\* the checks without lines 298-304
SkipSite_without_media_check(it) ==
    IF it.fault = "load" THEN "Could not load video data"
    ELSE IF it.fault = "title" THEN "Failed to scrape basic data"
    ELSE IF GuidVideos(it) \ Rejected(GuidVideos(it)) # {}
    THEN "duplicate guid"
    ELSE IF LinkVideos(it) \ Rejected(LinkVideos(it)) # {}
    THEN "duplicate link"
    ELSE "none"

\* the "return" the record takes before Video.from_vidscraper_video, named
\* by its message: lines 282-289, 291-296, 298-304, 308-316, 318-327
SkipSite(it) ==
    IF it.fault = "load" THEN "Could not load video data"
    ELSE IF it.fault = "title" THEN "Failed to scrape basic data"
    ELSE IF it.fault = "media" THEN "no file or embed code"
    ELSE IF GuidVideos(it) \ Rejected(GuidVideos(it)) # {}
    THEN "duplicate guid"
    ELSE IF LinkVideos(it) \ Rejected(LinkVideos(it)) # {}
    THEN "duplicate link"
    ELSE "none"

video_from_vidscraper_video_check ==
    \E u \in Called("video_from_vidscraper_video") :
       /\ u.pc = "start"
       /\ IF ~HasStarted(u.imp)
          THEN /\ IF u.retries >= ItemMaxRetries
                  THEN /\ queue' = Dequeue(queue, u)
                       /\ ended' = End(u, "MaxRetriesExceededError")
                  ELSE /\ queue' = Replace(queue, u, Retry(u, ItemMaxRetries))
                       /\ UNCHANGED ended
               /\ UNCHANGED <<jobs, videos, indexes, errors>>
          ELSE LET it == u.item
                   purged == IF it.fault = "none" THEN Purged(it) ELSE {}
               IN IF it.fault = "load" /\ HandleErrorRaises(TRUE)
                  THEN /\ queue' = Dequeue(queue, u)
                       /\ ended' = End(u, "TypeError")
                       /\ UNCHANGED <<jobs, videos, indexes, errors>>
                  ELSE /\ videos' = videos \ purged
                       /\ indexes' = {x \in indexes :
                                        \A v \in purged : x.video # v.id}
                       /\ IF SkipSite(it) # "none"
                          THEN /\ errors' = errors (+)
                                            SetToBag({ErrorRow(u.imp, TRUE)})
                               /\ jobs' = SkipJobs(jobs, u.imp)
                               /\ queue' = Enqueue(Dequeue(queue, u),
                                                   CompleteUnit(u.imp))
                               /\ ended' = End(u, SkipSite(it))
                          ELSE /\ queue' = Replace(queue, u,
                                             [u EXCEPT !.pc = "create"])
                               /\ UNCHANGED <<jobs, errors, ended>>
       /\ UNCHANGED <<inputsLeft, config>>

\* Video.from_vidscraper_video (models/videos.py:560-644): how the call
\* ends for a record and the names of the extra keyword arguments.  A record
\* with neither embed code nor file url raises InvalidVideo in the first
\* statement; the remaining kwargs go to the model constructor, which
\* raises TypeError for a name that is no field of Video.
from_vidscraper_video(it, kwargs) ==
    IF it.fault = "media" THEN "InvalidVideo"
    ELSE IF kwargs \ {"site_id", "authors", "categories"} # {}
    THEN "TypeError"
    ELSE "ok"

\* the primary key the database gives the next Video row
NextVideoPk ==
    LET pks == {v.id[3] : v \in videos}
    IN IF pks = {} THEN 1
       ELSE 1 + CHOOSE m \in pks : \A p \in pks : p <= m

\* the row Video.from_vidscraper_video saves when it returns
NewVideo(u) ==
    [id |-> <<u.imp, u.suite, NextVideoPk>>, site |-> SITE_ID,
     guid |-> u.item.guid, link |-> u.item.link, status |-> UNAPPROVED,
     when_approved |-> WhenApproved(UNAPPROVED)]

\* lines 328-369 with a call of Video.from_vidscraper_video that leaves
\* site_pk out: the Video and its index entry are saved
video_from_vidscraper_video_create_without_site_pk ==
    \E u \in Called("video_from_vidscraper_video") :
       /\ u.pc = "create"
       /\ queue' = Dequeue(queue, u)
       /\ videos' = videos \cup {NewVideo(u)}
       /\ indexes' = indexes \cup {[source_import |-> u.imp,
                                   video |-> NewVideo(u).id,
                                   index |-> u.idx]}
       /\ UNCHANGED <<jobs, errors, ended, inputsLeft, config>>

\* lines 328-369: Video.from_vidscraper_video(..., site_pk=site_pk) raises
\* TypeError in the model constructor; the outer "except Exception" calls
\* handle_error(is_skip=True, with_exception=True) and re-raises
video_from_vidscraper_video_create ==
    \E u \in Called("video_from_vidscraper_video") :
       /\ u.pc = "create"
       /\ from_vidscraper_video(u.item, {"authors", "categories", "site_pk"})
             # "ok"
       /\ IF HandleErrorRaises(TRUE)
          THEN /\ queue' = Dequeue(queue, u)
               /\ UNCHANGED <<jobs, errors>>
          ELSE /\ errors' = errors (+) SetToBag({ErrorRow(u.imp, TRUE)})
               /\ jobs' = SkipJobs(jobs, u.imp)
               /\ queue' = Enqueue(Dequeue(queue, u), CompleteUnit(u.imp))
       /\ ended' = End(u, IF HandleErrorRaises(TRUE) THEN "TypeError"
                          ELSE from_vidscraper_video(
                                  u.item, {"authors", "categories", "site_pk"}))
       /\ UNCHANGED <<videos, indexes, inputsLeft, config>>

\* the task called on a record with the arguments Source.update gives it
\* (status UNAPPROVED, clear_rejected True) and settings= in the place of
\* using=; for an import that is not STARTED one record stands for all, the
\* record being read only after the job row is found
video_from_vidscraper_video_delay ==
    /\ inputsLeft > 0
    /\ inputsLeft' = inputsLeft - 1
    /\ \E pk \in 1..(Len(jobs) + 1), it \in catalog :
          /\ ~HasStarted(pk) => it = PlainItem
          /\ queue' = Enqueue(queue,
                              [Unit("video_from_vidscraper_video", 0, pk, 0, 0)
                                  EXCEPT !.item = it])
    /\ UNCHANGED <<jobs, videos, indexes, errors, ended, config>>

\* ---- mark_import_complete (tasks.py:212-262) ----
\* get(pk=import_pk, status=import_class.PENDING): the attribute lookup
\* raises AttributeError, which "except import_class.DoesNotExist" lets through
mark_import_complete ==
    \E u \in Called("mark_import_complete") :
       /\ queue' = Dequeue(queue, u)
       /\ ended' = End(u, "AttributeError")
       /\ UNCHANGED <<jobs, videos, indexes, errors, inputsLeft, config>>

\* the task called directly, with settings=
mark_import_complete_delay ==
    /\ inputsLeft > 0
    /\ inputsLeft' = inputsLeft - 1
    /\ \E pk \in 1..(Len(jobs) + 1) :
          queue' = Enqueue(queue, Unit("mark_import_complete", 0, pk, 0, 0))
    /\ UNCHANGED <<jobs, videos, indexes, errors, ended, config>>

\* ---- mark_import_pending (tasks.py:127-209) ----
\* No code of the pipeline enqueues this task; it is a registered celery task
\* that a caller starts with the pk of an import.
mark_import_pending_delay ==
    /\ inputsLeft > 0
    /\ inputsLeft' = inputsLeft - 1
    /\ \E pk \in 1..(Len(jobs) + 1) :
          queue' = Enqueue(queue, Unit("mark_import_pending", 0, pk, 0, 0))
    /\ UNCHANGED <<jobs, videos, indexes, errors, ended, config>>

\* lines 135-147: the status-guarded fetch of the row
mark_import_pending_get ==
    \E u \in InQueue("mark_import_pending") :
       /\ u.pc = "start"
       /\ IF ~HasStarted(u.imp)
          THEN IF u.retries > ReconcilerRetryLimit
               THEN /\ queue' = Dequeue(queue, u)
                    /\ ended' = End(u, "MaxRetriesExceededError")
               ELSE /\ queue' = Replace(queue, u,
                                        Retry(u, ReconcilerRetryLimit))
                    /\ UNCHANGED ended
          ELSE /\ queue' = Replace(queue, u,
                             [u EXCEPT !.row = [jobs[u.imp] EXCEPT
                                                  !.last_activity = TRUE],
                                       !.pc = IF jobs[u.imp].total_videos = None
                                              THEN "save" ELSE "count"])
               /\ UNCHANGED ended
       /\ UNCHANGED <<jobs, videos, indexes, errors, inputsLeft, config>>

\* lines 153-160: the counts come from the index and error rows
import_count(imp) == Cardinality({x \in indexes : x.source_import = imp})
skipped_count(imp) == CopiesIn(ErrorRow(imp, TRUE), errors)

\* with the first stage complete the task goes on to Video.PENDING (line
\* 170): AttributeError
mark_import_pending_count ==
    \E u \in InQueue("mark_import_pending") :
       /\ u.pc = "count"
       /\ IF import_count(u.imp) + skipped_count(u.imp) < u.row.total_videos
          THEN /\ queue' = Replace(queue, u,
                             [u EXCEPT !.pc = "save",
                                       !.row.videos_imported =
                                            import_count(u.imp),
                                       !.row.videos_skipped =
                                            skipped_count(u.imp)])
               /\ UNCHANGED ended
          ELSE /\ queue' = Dequeue(queue, u)
               /\ ended' = End(u, "AttributeError")
       /\ UNCHANGED <<jobs, videos, indexes, errors, inputsLeft, config>>

\* the save without the retry(): the unit ends
mark_import_pending_save_no_retry ==
    \E u \in InQueue("mark_import_pending") :
       /\ u.pc = "save"
       /\ jobs' = [jobs EXCEPT ![u.imp] = u.row]
       /\ queue' = Dequeue(queue, u)
       /\ UNCHANGED <<videos, indexes, errors, ended, inputsLeft, config>>

\* source_import.save() writes every field of the row read earlier, then
\* mark_import_pending.retry()
mark_import_pending_save ==
    \E u \in InQueue("mark_import_pending") :
       /\ u.pc = "save"
       /\ jobs' = [jobs EXCEPT ![u.imp] = u.row]
       /\ queue' = Replace(queue, u, Retry(u, ReconcilerRetryLimit))
       /\ UNCHANGED <<videos, indexes, errors, ended, inputsLeft, config>>

\* ---- properties ----
\* The spec's fourth job status.  SourceImport defines no such constant and
\* no step of the code stores this value.
PENDING == "pending"

JobsOf(src) == {j \in JobIds : jobs[j].src = src}
NonTerminalOf(src) == {j \in JobsOf(src) : jobs[j].status \in {STARTED, PENDING}}

\* ---- the SiteLocation cache (models/settings.py:36-76, 209-211) ----
import_and_index ==
    <<sources, jobs, videos, indexes, errors, queue, ended, inputsLeft,
      catalog, logDebug, process, tagged, haystack, original>>

\* SiteLocation.save: the object goes to the cache, then Model.save writes
\* the row, or raises (a pre_save handler or the store refuses)
SiteLocation_save ==
    \E site \in Sites, value \in SiteValues, raises \in BOOLEAN :
       /\ SITE_LOCATION_CACHE' = [SITE_LOCATION_CACHE EXCEPT ![site] = value]
       /\ site_locations' = IF raises THEN site_locations
                            ELSE [site_locations EXCEPT ![site] = value]
       /\ returned' = [call |-> "save", site |-> site, value |-> value,
                       how |-> IF raises THEN "raised" ELSE "ok"]
       /\ UNCHANGED import_and_index

\* SiteLocationManager.get(site=...): the cached object, or the row of the
\* store, put into the cache, or DoesNotExist
SiteLocationManager_get ==
    \E site \in Sites :
       /\ IF SITE_LOCATION_CACHE[site] # 0
          THEN /\ returned' = [call |-> "get", site |-> site,
                               value |-> SITE_LOCATION_CACHE[site],
                               how |-> "cache"]
               /\ UNCHANGED SITE_LOCATION_CACHE
          ELSE IF site_locations[site] # 0
          THEN /\ returned' = [call |-> "get", site |-> site,
                               value |-> site_locations[site],
                               how |-> "store"]
               /\ SITE_LOCATION_CACHE' =
                     [SITE_LOCATION_CACHE EXCEPT ![site] = site_locations[site]]
          ELSE /\ returned' = [call |-> "get", site |-> site, value |-> 0,
                               how |-> "DoesNotExist"]
               /\ UNCHANGED SITE_LOCATION_CACHE
       /\ UNCHANGED <<site_locations, import_and_index>>

\* SiteLocationManager.get_current: as get for settings.SITE_ID, and a
\* missing row is created
SiteLocationManager_get_current ==
    /\ IF SITE_LOCATION_CACHE[SITE_ID] # 0
       THEN /\ returned' = [call |-> "get_current", site |-> SITE_ID,
                            value |-> SITE_LOCATION_CACHE[SITE_ID],
                            how |-> "cache"]
            /\ UNCHANGED <<SITE_LOCATION_CACHE, site_locations>>
       ELSE IF site_locations[SITE_ID] # 0
       THEN /\ returned' = [call |-> "get_current", site |-> SITE_ID,
                            value |-> site_locations[SITE_ID],
                            how |-> "store"]
            /\ SITE_LOCATION_CACHE' =
                  [SITE_LOCATION_CACHE EXCEPT ![SITE_ID] = site_locations[SITE_ID]]
            /\ UNCHANGED site_locations
       ELSE /\ returned' = [call |-> "get_current", site |-> SITE_ID,
                            value |-> 1, how |-> "created"]
            /\ site_locations' = [site_locations EXCEPT ![SITE_ID] = 1]
            /\ SITE_LOCATION_CACHE' =
                  [SITE_LOCATION_CACHE EXCEPT ![SITE_ID] = 1]
    /\ UNCHANGED import_and_index

\* SiteLocationManager.clear_cache, connected to request_finished
SiteLocationManager_clear_cache ==
    /\ SITE_LOCATION_CACHE' = [s \in Sites |-> 0]
    /\ returned' = [call |-> "clear_cache", site |-> 0, value |-> 0,
                    how |-> "ok"]
    /\ UNCHANGED <<site_locations, import_and_index>>

\* ---- OriginalVideo.update (models/videos.py:84-289) ----
\* what a scrape of the remote video gives: VideoDeleted raised, or a record
\* with its title (0: every field of the record is empty)
Scrapes ==
    {[deleted |-> TRUE, title |-> 0]}
    \cup {[deleted |-> FALSE, title |-> t] : t \in 0..MaxValues}

\* "if remote_video_was_deleted or all(not getattr(vidscraper_video, field)
\* for field in fields)"
FoundDeleted(scrape) == scrape.deleted \/ scrape.title = 0

\* changed_fields without "We already notified the admins of the deletion"
changed_fields_without_notified_check(ov, scrape) ==
    IF FoundDeleted(scrape) THEN "deleted"
    ELSE IF ov.remote_video_was_deleted # VIDEO_ACTIVE THEN "not deleted"
    ELSE IF scrape.title # ov.name THEN "name"
    ELSE "none"

\* OriginalVideo.changed_fields: {} ("none"), {'deleted': True},
\* {'deleted': False}, or the changed name
changed_fields(ov, scrape) ==
    IF FoundDeleted(scrape)
    THEN IF ov.remote_video_was_deleted = VIDEO_DELETED THEN "none"
         ELSE "deleted"
    ELSE IF ov.remote_video_was_deleted # VIDEO_ACTIVE THEN "not deleted"
    ELSE IF scrape.title # ov.name THEN "name"
    ELSE "none"

\* send_deleted_notification: the notice goes out for DELETE_PENDING, and
\* the state moves on
send_deleted_notification(ov) ==
    IF ov.remote_video_was_deleted = VIDEO_DELETE_PENDING
    THEN [ov EXCEPT !.remote_video_was_deleted = VIDEO_DELETED,
                    !.notices = @ + 1, !.last = "deleted notice"]
    ELSE [ov EXCEPT !.remote_video_was_deleted = VIDEO_DELETE_PENDING,
                    !.last = "pending"]

\* the rest of update() for a video that is there: the state goes back to
\* VIDEO_ACTIVE; a new title goes to the OriginalVideo and, if the Video
\* still had the recorded name, to the Video, else an updated-notification
\* is sent
update_fields(ov, scrape, changed) ==
    IF changed = "not deleted"
    THEN [ov EXCEPT !.remote_video_was_deleted = VIDEO_ACTIVE,
                    !.last = "reset"]
    ELSE IF ov.name = ov.video_name
    THEN [ov EXCEPT !.name = scrape.title, !.video_name = scrape.title,
                    !.last = "updated"]
    ELSE [ov EXCEPT !.name = scrape.title, !.last = "updated notice"]

\* one run of OriginalVideo.update
OriginalVideo_update ==
    /\ original.runs < MaxRuns
    /\ \E scrape \in Scrapes :
          LET changed == changed_fields(original, scrape)
              ran == [original EXCEPT
                         !.runs = @ + 1,
                         !.streak = IF ~FoundDeleted(scrape) THEN 0
                                    ELSE IF @ >= 3 THEN 3 ELSE @ + 1]
          IN original' =
                IF changed = "none" THEN [ran EXCEPT !.last = "nothing"]
                ELSE IF changed = "deleted"
                THEN send_deleted_notification(ran)
                ELSE update_fields(ran, scrape, changed)
    /\ UNCHANGED <<sources, jobs, videos, indexes, errors, queue, ended,
                   inputsLeft, catalog, logDebug, process, tagged, haystack,
                   site_locations, SITE_LOCATION_CACHE, returned>>

\* the Video is renamed on the site
Video_rename ==
    /\ \E n \in SiteValues :
          /\ n # original.video_name
          /\ original' = [original EXCEPT !.video_name = n]
    /\ UNCHANGED <<sources, jobs, videos, indexes, errors, queue, ended,
                   inputsLeft, catalog, logDebug, process, tagged, haystack,
                   site_locations, SITE_LOCATION_CACHE, returned>>

\* ---- the full-text index (search_indexes.py:29-53, tasks.py:389-430) ----
\* QueuedSearchIndex._enqueue_instance: haystack_update_index.delay(app_label,
\* module_name, pk, is_removal, settings=settings.SETTINGS_MODULE)
IndexUnit(pk, is_removal) ==
    [Unit("haystack_update_index", 0, 0, 0, pk) EXCEPT !.flag = is_removal]

\* a Video of the site is saved with a status (an admin approves, rejects or
\* edits it): post_save enqueues an update unit
Video_save ==
    /\ inputsLeft > 0
    /\ inputsLeft' = inputsLeft - 1
    /\ \E v \in videos, st \in {UNAPPROVED, ACTIVE, REJECTED} :
          /\ videos' = (videos \ {v}) \cup {[v EXCEPT !.status = st]}
          /\ queue' = Enqueue(queue, IndexUnit(v.id[3], FALSE))
    /\ UNCHANGED <<jobs, indexes, errors, ended, sources, catalog, logDebug,
                   process, tagged, apart>>

\* a Video is deleted: post_delete enqueues a removal unit
Video_delete ==
    /\ inputsLeft > 0
    /\ inputsLeft' = inputsLeft - 1
    /\ \E v \in videos :
          /\ videos' = videos \ {v}
          /\ indexes' = {x \in indexes : x.video # v.id}
          /\ queue' = Enqueue(queue, IndexUnit(v.id[3], TRUE))
    /\ UNCHANGED <<jobs, errors, ended, sources, catalog, logDebug, process,
                   tagged, apart>>

\* haystack_update_index up to the write to the index: a removal unit
\* removes the pk; an update unit reads the Video: none, it ends; ACTIVE, it
\* goes on to update_object with the instance it read; else it removes the
\* pk
haystack_update_index_read ==
    \E u \in Called("haystack_update_index") :
       /\ u.pc = "start"
       /\ LET found == {v \in videos : v.id[3] = u.idx}
          IN IF u.flag
             THEN /\ haystack' = haystack \ {u.idx}
                  /\ queue' = Dequeue(queue, u)
             ELSE IF found = {}
             THEN /\ queue' = Dequeue(queue, u)
                  /\ UNCHANGED haystack
             ELSE IF \E v \in found : v.status = ACTIVE
             THEN /\ queue' = Replace(queue, u, [u EXCEPT !.pc = "write"])
                  /\ UNCHANGED haystack
             ELSE /\ haystack' = haystack \ {u.idx}
                  /\ queue' = Dequeue(queue, u)
       /\ UNCHANGED <<jobs, videos, indexes, errors, ended, inputsLeft,
                      sources, catalog, logDebug, process, tagged,
                      site_locations, SITE_LOCATION_CACHE, returned, original>>

\* search_index.update_object(instance): the instance read earlier is
\* written to the index
haystack_update_index_write ==
    \E u \in Called("haystack_update_index") :
       /\ u.pc = "write"
       /\ haystack' = haystack \cup {u.idx}
       /\ queue' = Dequeue(queue, u)
       /\ UNCHANGED <<jobs, videos, indexes, errors, ended, inputsLeft,
                      sources, catalog, logDebug, process, tagged,
                      site_locations, SITE_LOCATION_CACHE, returned, original>>

\* the write finds the index locked (DatabaseLockError, LockError): the
\* unit is retried from its start, without a limit (max_retries=None)
haystack_update_index_locked ==
    /\ inputsLeft > 0
    /\ inputsLeft' = inputsLeft - 1
    /\ \E u \in Called("haystack_update_index") :
          /\ u.pc = "write"
          /\ queue' = Replace(queue, u, [u EXCEPT !.pc = "start"])
    /\ UNCHANGED <<jobs, videos, indexes, errors, ended, config>>

\* unit u takes a step: one copy of it leaves the queue
Steps(u) == CopiesIn(u, queue') < CopiesIn(u, queue)

Quiescent == queue = EmptyBag

\* C1: in every reachable state at most one Import Job of a Source is in a
\* non-terminal status (STARTED or PENDING), whatever the interleaving of
\* the update units of that Source.
C1_AtMostOneNonTerminalJob ==
    \A s \in SourceIds : Cardinality(NonTerminalOf(s)) <= 1

\* C2: an update (Feed.update / SavedSearch.update) that runs while its
\* Source has a job in STARTED or PENDING status is a no-op: no job row is
\* created or changed, nothing is fetched, nothing is enqueued, and the unit
\* ends.
C2_UpdateWhileInProgressIsNoOp ==
    [][\A u \in BagToSet(queue) :
          (/\ u.task \in {"feed_update", "search_update"}
           /\ u.pc = "start"
           /\ NonTerminalOf(u.src) # {}
           /\ Steps(u))
          => /\ jobs' = jobs
             /\ queue' = Dequeue(queue, u)
             /\ inputsLeft' = inputsLeft
             /\ videos' = videos
             /\ indexes' = indexes
             /\ errors' = errors]_vars

\* an update unit has returned early with exactly one job of its source
C2_Witness ==
    \E e \in ended :
       /\ e.task \in {"feed_update", "search_update"}
       /\ e.how = "skipped"
       /\ Cardinality(JobsOf(e.src)) = 1
       /\ NonTerminalOf(e.src) # {}

\* the edges the job status may follow
StatusEdges == {<<STARTED, PENDING>>, <<PENDING, COMPLETE>>, <<STARTED, FAILED>>}

\* C3: over any sequence of update, per-item, mark_import_pending and
\* mark_import_complete steps the status of a job changes only along
\* STARTED->PENDING, PENDING->COMPLETE and STARTED->FAILED; in particular
\* no job leaves COMPLETE or FAILED.
C3_StatusFollowsEdges ==
    [][\A j \in JobIds :
          jobs'[j].status # jobs[j].status
          => <<jobs[j].status, jobs'[j].status>> \in StatusEdges]_vars

\* C4: whenever total_videos of a job is known, videos_imported +
\* videos_skipped does not exceed it (feed jobs, search jobs over several
\* provider sequences, per-item units failing after the video was created).
C4_CountsWithinTotal ==
    \A j \in JobIds :
       jobs[j].total_videos # None
       => jobs[j].videos_imported + jobs[j].videos_skipped
             <= jobs[j].total_videos

\* the units of the two reconcilers
Reconcilers == {"mark_import_pending", "mark_import_complete"}

\* unit u is scheduled again after the step, one retry further
Rescheduled(u) ==
    CopiesIn(Retry(u, ReconcilerRetryLimit), queue')
       > CopiesIn(Retry(u, ReconcilerRetryLimit), Dequeue(queue, u))

\* C5: a job goes from STARTED to PENDING only with total_videos known and
\* videos_imported + videos_skipped equal to it; a mark_import_pending run
\* that finds total_videos unknown, or the counted sum below it, goes to the
\* branch that saves the job as STARTED and reschedules the same unit.
C5_LeavesStartedOnlyWhenCounted ==
    [][/\ \A j \in JobIds :
             (jobs[j].status = STARTED /\ jobs'[j].status = PENDING)
             => /\ jobs[j].total_videos # None
                /\ jobs[j].videos_imported + jobs[j].videos_skipped
                      = jobs[j].total_videos
       /\ \A u \in InQueue("mark_import_pending") :
             /\ (/\ u.pc = "start"
                 /\ HasStarted(u.imp)
                 /\ jobs[u.imp].total_videos = None
                 /\ Steps(u))
                => CopiesIn([u EXCEPT !.pc = "save",
                                      !.row = [jobs[u.imp] EXCEPT
                                                 !.last_activity = TRUE]],
                            queue') > 0
             /\ (/\ u.pc = "count"
                 /\ import_count(u.imp) + skipped_count(u.imp)
                       < u.row.total_videos
                 /\ Steps(u))
                => \E v \in BagToSet(queue') :
                      /\ v.task = u.task /\ v.imp = u.imp
                      /\ v.pc = "save" /\ v.row.status = STARTED
             /\ (u.pc = "save" /\ Steps(u))
                => /\ jobs'[u.imp].status = STARTED
                   /\ Rescheduled(u)]_vars

\* a mark_import_pending unit is back in the queue after a retry, its job
\* saved as STARTED with the total known and the counted sum below it
C5_Witness ==
    \E u \in InQueue("mark_import_pending") :
       /\ u.pc = "start"
       /\ u.retries >= 1
       /\ HasStarted(u.imp)
       /\ jobs[u.imp].last_activity
       /\ jobs[u.imp].total_videos # None
       /\ import_count(u.imp) + skipped_count(u.imp)
             < jobs[u.imp].total_videos

\* C6: a mark_import_complete run on a job ends in one of two ways: the job
\* COMPLETE (index count >= ACTIVE count), or the job as it was and a retry
\* of the same unit scheduled.
C6_CompleteOrRetry ==
    [][\A u \in InQueue("mark_import_complete") :
          (u.imp \in JobIds /\ Steps(u))
          => \/ jobs'[u.imp].status = COMPLETE
             \/ jobs' = jobs /\ Rescheduled(u)]_vars

\* C7: the completion reconciler does not give up: a mark_import_complete
\* unit of a job ends only with the job COMPLETE (the bounded hard failure
\* for a row that is not there apart).
C7_ReconcilerNeverGivesUp ==
    \A e \in ended :
       (/\ e.task = "mark_import_complete"
        /\ e.imp \in JobIds
        /\ e.how # "MaxRetriesExceededError")
       => jobs[e.imp].status = COMPLETE

\* the status a reconciler expects of its job row
ExpectedStatus(task) ==
    IF task = "mark_import_complete" THEN PENDING ELSE STARTED

\* C8: a reconciler unit that finds its job row missing or not in the
\* expected status modifies no job; it is rescheduled while its retry count
\* is at most 10 and ends with MaxRetriesExceededError above that.
C8_BoundedRetryOnMissingRow ==
    [][\A u \in BagToSet(queue) :
          (/\ u.task \in Reconcilers
           /\ u.pc = "start"
           /\ ~(u.imp \in JobIds
                /\ jobs[u.imp].status = ExpectedStatus(u.task))
           /\ Steps(u))
          => /\ jobs' = jobs
             /\ IF u.retries > ReconcilerRetryLimit
                THEN /\ queue' = Dequeue(queue, u)
                     /\ ended' = End(u, "MaxRetriesExceededError")
                ELSE /\ queue' = Replace(queue, u,
                                         Retry(u, ReconcilerRetryLimit))
                     /\ ended' = ended]_vars

\* a reconciler unit for job j has ended with the bounded hard failure
HardFailure(j) ==
    \E e \in ended :
       /\ e.task \in Reconcilers
       /\ e.imp = j
       /\ e.how = "MaxRetriesExceededError"

\* C9: no job is silently stuck: once every queued unit has run, each job
\* is COMPLETE or FAILED, or a reconciler unit of it has ended with the
\* hard failure.
C9_NoJobSilentlyStuck ==
    Quiescent
    => \A j \in JobIds :
          \/ jobs[j].status \in {COMPLETE, FAILED}
          \/ HardFailure(j)

\* source_import.get_videos(): the Videos the job's index rows point to
VideosOf(j) ==
    {v \in videos :
        \E x \in indexes : x.video = v.id /\ x.source_import = j}

\* C10: a Feed with auto_approve false whose fetch gave 3 records, none a
\* duplicate: once every queued unit has run, the job is COMPLETE with
\* videos_imported 3 and videos_skipped 0, and its 3 videos are UNAPPROVED.
C10_ThreeItemsEndToEnd ==
    \A j \in JobIds :
       (/\ Quiescent
        /\ ~jobs[j].auto_approve
        /\ jobs[j].total_videos = 3)
       => /\ jobs[j].status = COMPLETE
          /\ jobs[j].videos_imported = 3
          /\ jobs[j].videos_skipped = 0
          /\ Cardinality(VideosOf(j)) = 3
          /\ \A v \in VideosOf(j) : v.status = UNAPPROVED

\* Tier.get().videos_limit() (tasks.py:176) of the site's tier
videos_limit == 2

ActiveOf(j) == {v \in VideosOf(j) : v.status = ACTIVE}
UnapprovedOf(j) == {v \in VideosOf(j) : v.status = UNAPPROVED}

\* videos_limit minus the ACTIVE Videos there were before the job's own
RemainingVideos(j) ==
    videos_limit
       - Cardinality({v \in videos \ VideosOf(j) : v.status = ACTIVE})

\* C11: a job with the auto-approve snapshot true that fetched n records,
\* none skipped, with remaining capacity r in 0..n: once every queued unit
\* has run, exactly r of its Videos are ACTIVE and the other n - r are
\* UNAPPROVED.
C11_CapacityLimitedApproval ==
    \A j \in JobIds :
       (/\ Quiescent
        /\ jobs[j].auto_approve
        /\ jobs[j].total_videos # None
        /\ jobs[j].videos_skipped = 0
        /\ RemainingVideos(j) \in 0..jobs[j].total_videos)
       => /\ Cardinality(ActiveOf(j)) = RemainingVideos(j)
          /\ Cardinality(UnapprovedOf(j))
                = jobs[j].total_videos - RemainingVideos(j)

\* C12: the ACTIVE Videos never exceed the tier's limit, and the
\* bulk-approval step never raises: a mark_import_pending unit ends only by
\* the bounded hard failure for a missing row.
C12_ApprovalWithinLimit ==
    /\ Cardinality({v \in videos : v.status = ACTIVE}) <= videos_limit
    /\ \A e \in ended :
          e.task = "mark_import_pending"
          => e.how = "MaxRetriesExceededError"

KindOf(j) == sources[jobs[j].src].kind

\* C14: a Source's status changes only to ACTIVE and only in the step that
\* makes a feed job of it COMPLETE; the step that makes a feed job COMPLETE
\* sets its Source ACTIVE; and a mark_import_complete run on a feed job
\* ends either so or, the Sources unchanged, with its retry scheduled.
C14_FeedActiveOnComplete ==
    [][/\ \A s \in SourceIds :
             sources'[s].status # sources[s].status
             => /\ sources'[s].status = ACTIVE
                /\ sources[s].kind = "feed"
                /\ \E j \in JobsOf(s) : /\ jobs[j].status # COMPLETE
                                        /\ jobs'[j].status = COMPLETE
       /\ \A j \in JobIds :
             (/\ KindOf(j) = "feed"
              /\ jobs[j].status # COMPLETE
              /\ jobs'[j].status = COMPLETE)
             => sources'[jobs[j].src].status = ACTIVE
       /\ \A u \in InQueue("mark_import_complete") :
             (u.imp \in JobIds /\ KindOf(u.imp) = "feed" /\ Steps(u))
             => \/ /\ jobs'[u.imp].status = COMPLETE
                   /\ sources'[jobs[u.imp].src].status = ACTIVE
                \/ /\ sources' = sources
                   /\ Rescheduled(u)]_vars

\* the per-item units of job j, queued or ended
ItemUnitsOf(j) ==
    {u \in InQueue("video_from_vidscraper_video") : u.imp = j}
    \cup {e \in ended : e.task = "video_from_vidscraper_video" /\ e.imp = j}

\* C15: a FAILED job has total_videos unknown, both counters 0 and no
\* per-item unit; a FAILED feed job has exactly one error row that is not a
\* skip, and a FAILED search job one for each provider sequence (every
\* sequence failed to load).
C15_LoadFailure ==
    \A j \in JobIds :
       jobs[j].status = FAILED
       => /\ jobs[j].total_videos = None
          /\ jobs[j].videos_imported = 0
          /\ jobs[j].videos_skipped = 0
          /\ ItemUnitsOf(j) = {}
          /\ CopiesIn(ErrorRow(j, TRUE), errors) = 0
          /\ CopiesIn(ErrorRow(j, FALSE), errors)
                = IF KindOf(j) = "feed" THEN 1 ELSE NSuites

FailedOf(src) == {j \in JobsOf(src) : jobs[j].status = FAILED}

\* a scheduler tick: an input is used and no unit leaves the queue
TickStep ==
    /\ inputsLeft' < inputsLeft
    /\ \A u \in BagToSet(queue) : CopiesIn(u, queue') >= CopiesIn(u, queue)

UpdateUnit(s) ==
    Unit(IF sources[s].kind = "feed" THEN "feed_update" ELSE "search_update",
         s, 0, 0, 0)

\* C16: a FAILED job does not stop the Source's later runs: a tick enqueues
\* an update for an auto-updated Source that has a FAILED job; an update
\* that finds FAILED jobs and no STARTED job goes on to create a job; and
\* the job it creates is a new STARTED job of the Source.
C16_FailureDoesNotBlockSource ==
    [][/\ TickStep
          => \A s \in SourceIds :
                (/\ sources[s].auto_update
                 /\ sources[s].kind = "feed" => sources[s].status = ACTIVE
                 /\ FailedOf(s) # {})
                => CopiesIn(UpdateUnit(s), queue')
                      = CopiesIn(UpdateUnit(s), queue) + 1
       /\ \A u \in InQueue("feed_update") \cup InQueue("search_update") :
             /\ (/\ u.pc = "start"
                 /\ Steps(u)
                 /\ FailedOf(u.src) # {}
                 /\ \A j \in JobsOf(u.src) : jobs[j].status # STARTED)
                => CopiesIn([u EXCEPT !.pc = "create"], queue') > 0
             /\ (u.pc = "create" /\ Steps(u))
                => /\ Len(jobs') = Len(jobs) + 1
                   /\ jobs'[Len(jobs')].src = u.src
                   /\ jobs'[Len(jobs')].status = STARTED
                   /\ \A j \in JobIds : jobs'[j] = jobs[j]]_vars

\* a Source has a FAILED job and a job created after it that is STARTED
C16_Witness ==
    \E s \in SourceIds :
       \E j1 \in FailedOf(s), j2 \in JobsOf(s) :
          /\ j1 < j2
          /\ jobs[j2].status = STARTED
          /\ jobs[j2].total_videos # None

\* the per-item units that have found their job STARTED
ItemRuns ==
    {u \in Called("video_from_vidscraper_video") :
        u.pc = "create" \/ (u.pc = "start" /\ HasStarted(u.imp))}

\* the Videos of the tenant that have the record's GUID or its link
Matching(it) ==
    {v \in videos :
        /\ v.site = SITE_ID
        /\ \/ it.guid # 0 /\ v.guid = it.guid
           \/ it.link # 0 /\ v.link = it.link}

Loaded(it) == it.fault = "none"

\* the run of u records one skip: one more skip row, videos_skipped + 1
SkipRecorded(u) ==
    /\ errors' = errors (+) SetToBag({ErrorRow(u.imp, TRUE)})
    /\ jobs' = [jobs EXCEPT ![u.imp].videos_skipped = @ + 1]

\* the run of u saves one Video for its record, with the status asked for
VideoCreated(u) ==
    \E v \in videos' \ videos :
       /\ videos' \ videos = {v}
       /\ v.site = SITE_ID
       /\ v.guid = u.item.guid
       /\ v.link = u.item.link
       /\ v.status = UNAPPROVED

\* C17: the run on a record whose GUID or link is that of a Video of the
\* tenant that is not REJECTED saves no Video and records one skip; a Video
\* of another tenant causes no skip; and the run on a record that passed the
\* checks saves its Video, so that a second run on the record finds it.
C17_DuplicateIsSkipped ==
    [][\A u \in ItemRuns :
          (Steps(u) /\ Loaded(u.item))
          => /\ (u.pc = "start" /\ Matching(u.item) \ Rejected(videos) # {})
                => /\ videos' \subseteq videos
                   /\ SkipRecorded(u)
             /\ (u.pc = "start" /\ Matching(u.item) \ Rejected(videos) = {})
                => /\ errors' = errors
                   /\ CopiesIn([u EXCEPT !.pc = "create"], queue') > 0
             /\ u.pc = "create"
                => /\ VideoCreated(u)
                   /\ errors' = errors]_vars

\* C18: no two Videos of one tenant that are not REJECTED have the same
\* non-empty GUID or the same non-empty link.
C18_UniqueGuidAndLink ==
    \A v, w \in videos \ Rejected(videos) :
       (v # w /\ v.site = w.site)
       => /\ v.guid # 0 => v.guid # w.guid
          /\ v.link # 0 => v.link # w.link

\* two workers are past the duplicate checks with the same record at the
\* same time, and the runs on that record left no Video behind
C18_Witness ==
    \E u \in ItemRuns :
       /\ u.pc = "create"
       /\ u.item.guid # 0
       /\ CopiesIn(u, queue) >= 2
       /\ Matching(u.item) = {}

\* C19: the run on a record that matches only REJECTED Videos deletes them
\* and records no skip, and the run then saves a fresh Video with the status
\* asked for and still records no skip.
C19_RejectedIsReplaced ==
    [][\A u \in ItemRuns :
          (Steps(u) /\ Loaded(u.item))
          => /\ (/\ u.pc = "start"
                 /\ Matching(u.item) # {}
                 /\ Matching(u.item) \subseteq Rejected(videos))
                => /\ videos' = videos \ Matching(u.item)
                   /\ jobs' = jobs
                   /\ errors' = errors
                   /\ CopiesIn([u EXCEPT !.pc = "create"], queue') > 0
             /\ (u.pc = "create" /\ u.item.guid # 0)
                => /\ VideoCreated(u)
                   /\ jobs' = jobs]_vars

\* C34: the run on a loaded record that does not go on to the creation of
\* a Video (the record is skipped) deletes no REJECTED Video.
C34_RejectedKeptOnSkip ==
    [][\A u \in ItemRuns :
          (/\ u.pc = "start"
           /\ Steps(u)
           /\ Loaded(u.item)
           /\ CopiesIn([u EXCEPT !.pc = "create"], queue')
                 <= CopiesIn([u EXCEPT !.pc = "create"], queue))
          => Rejected(videos) \subseteq videos']_vars

\* C35: the run of a per-item unit whose job is missing or is not STARTED
\* saves no Video, no index entry and no error row and leaves every job as
\* it is; it puts itself back with one more retry while it has had fewer
\* than 6, and ends with MaxRetriesExceededError when it has had 6.
C35_NotStartedOnlyRetries ==
    [][\A u \in Called("video_from_vidscraper_video") :
          (/\ u.pc = "start"
           /\ Steps(u)
           /\ (u.imp \notin JobIds \/ jobs[u.imp].status # STARTED))
          => /\ videos' = videos
             /\ indexes' = indexes
             /\ errors' = errors
             /\ jobs' = jobs
             /\ u.retries <= 6
             /\ u.retries < 6
                => /\ queue' = Replace(queue, u,
                                       [u EXCEPT !.retries = u.retries + 1])
                   /\ ended' = ended
             /\ u.retries = 6
                => /\ queue' = Dequeue(queue, u)
                   /\ ended' = End(u, "MaxRetriesExceededError")]_vars

\* a per-item unit of a job that is not STARTED has given up after its
\* retries, and nothing was saved for the job
C35_Witness ==
    \E e \in ended :
       /\ e.task = "video_from_vidscraper_video"
       /\ e.how = "MaxRetriesExceededError"
       /\ e.imp \in JobIds
       /\ jobs[e.imp].status = FAILED
       /\ import_count(e.imp) = 0
       /\ skipped_count(e.imp) = 0

\* C36: every ACTIVE Video has a when_approved timestamp, and the
\* bulk-approval step of mark_import_pending, reached for a job whose
\* counts are complete, runs to its end without raising and leaves it so.
C36_ActiveHasWhenApproved ==
    [][/\ \A v \in videos' : v.status = ACTIVE => v.when_approved
       /\ \A u \in InQueue("mark_import_pending") :
             (/\ u.pc = "count"
              /\ Steps(u)
              /\ u.row.auto_approve
              /\ import_count(u.imp) + skipped_count(u.imp)
                    >= u.row.total_videos)
             => ended' = ended]_vars

\* the pks of the Videos that exist with status ACTIVE
ActivePks == {v.id[3] : v \in {w \in videos : w.status = ACTIVE}}

\* C37: when no haystack_update_index unit is left, the full-text index
\* holds the pk of a Video if and only if the Video exists with status
\* ACTIVE.
C37_IndexConverges ==
    InQueue("haystack_update_index") = {} => haystack = ActivePks

\* C38: an object in the cache of the process is the row of the store
\* (after a save, failed or not; after a get; after clear_cache); a get
\* returns the row of the store, and one that misses fills the cache with
\* it.
C38_CacheCoherent ==
    [][/\ \A s \in Sites :
             SITE_LOCATION_CACHE'[s] # 0
             => SITE_LOCATION_CACHE'[s] = site_locations'[s]
       /\ (returned'.call = "get" /\ returned'.how # "DoesNotExist")
          => /\ returned'.value = site_locations[returned'.site]
             /\ SITE_LOCATION_CACHE'[returned'.site] = returned'.value]_vars

\* C39: a run of update() sends a deleted-notification, exactly one, if and
\* only if it is the second run in a row that finds the remote video
\* deleted; the first such run leaves VIDEO_DELETE_PENDING, the second and
\* every further one VIDEO_DELETED; a run that finds the video there leaves
\* VIDEO_ACTIVE.
C39_DeletedNoticeOnce ==
    [][original'.runs = original.runs + 1
       => /\ original'.notices = original.notices + 1 <=> original'.streak = 2
          /\ original'.notices = original.notices <=> original'.streak # 2
          /\ original'.streak = 0
             => original'.remote_video_was_deleted = VIDEO_ACTIVE
          /\ original'.streak = 1
             => original'.remote_video_was_deleted = VIDEO_DELETE_PENDING
          /\ original'.streak >= 2
             => original'.remote_video_was_deleted = VIDEO_DELETED]_vars

\* the remote video was found deleted twice in a row, came back, and was
\* found deleted twice in a row again: two notices in five runs
C39_Witness ==
    /\ original.notices = 2
    /\ original.runs = 5
    /\ original.remote_video_was_deleted = VIDEO_DELETED

NoMedia(it) == it.fault = "media"

RunEnds(u) ==
    /\ Steps(u)
    /\ CopiesIn([u EXCEPT !.pc = "create"], queue')
          <= CopiesIn([u EXCEPT !.pc = "create"], Dequeue(queue, u))

\* the run of u records one import: one more index row of the job,
\* videos_imported + 1
ImportRecorded(u) ==
    /\ \E x \in indexes' \ indexes :
          /\ indexes' = indexes \cup {x}
          /\ x.source_import = u.imp
    /\ jobs' = [jobs EXCEPT ![u.imp].videos_imported = @ + 1]

\* C21: the end of a per-item run on a STARTED job, a raise included, is
\* one import recorded (an index row, videos_imported + 1, no error row) or
\* one skip recorded (a skip row, videos_skipped + 1, no index row), never
\* both and never neither.
C21_ImportedOrSkipped ==
    [][\A u \in InQueue("video_from_vidscraper_video") :
          (RunEnds(u) /\ (u.pc = "create" \/ HasStarted(u.imp)))
          => \/ ImportRecorded(u) /\ errors' = errors
             \/ SkipRecorded(u) /\ indexes' \subseteq indexes]_vars

\* C22: whatever the interleaving of the per-item runs of a STARTED job, its
\* stored videos_skipped is the number of skips recorded for it (its skip
\* rows) and its stored videos_imported the number of imports recorded for
\* it (its index rows).
C22_NoLostIncrement ==
    \A j \in JobIds :
       jobs[j].status = STARTED
       =>
       /\ jobs[j].videos_skipped = CopiesIn(ErrorRow(j, TRUE), errors)
       /\ jobs[j].videos_imported
             = Cardinality({x \in indexes : x.source_import = j})

\* runs of one job overlap: a skip of the job is recorded and counted while
\* another run of the job is between its checks and its end
C22_Witness ==
    \E j \in JobIds :
       /\ jobs[j].videos_skipped >= 1
       /\ CopiesIn(ErrorRow(j, TRUE), errors) >= 1
       /\ \E u \in ItemRuns : u.imp = j /\ u.pc = "create"

\* the units of the per-item task in a queue
ItemUnitsIn(q) ==
    {w \in BagToSet(q) : w.task = "video_from_vidscraper_video"}

\* C23: a per-item run that raises in the call that builds the Video
\* records one skip row against its job, ends by raising, and is not put
\* back on the queue; the other per-item units stay queued, and no job
\* changes status.
C23_ItemFailureIsContained ==
    [][\A u \in ItemRuns :
          (u.pc = "create" /\ Steps(u))
          => /\ SkipRecorded(u)
             /\ \E e \in ended' :
                   /\ e.task = u.task
                   /\ e.imp = u.imp
                   /\ e.how \in {"TypeError", "InvalidVideo"}
             /\ \A w \in ItemUnitsIn(queue) \cup ItemUnitsIn(queue') :
                   CopiesIn(w, queue') = CopiesIn(w, Dequeue(queue, u))
             /\ \A j \in JobIds : jobs'[j].status = jobs[j].status]_vars

\* the Sources a tick is to update: auto_update set and, for a Feed (the
\* kind of Source that has a status), status ACTIVE
ToUpdate ==
    {s \in SourceIds :
        /\ sources[s].auto_update
        /\ sources[s].kind = "feed" => sources[s].status = ACTIVE}

\* C24: a tick adds to the queue exactly one update unit for each Source
\* with auto_update set and (a Feed) status ACTIVE and none for another
\* Source; it adds and removes no other unit, whatever is queued, and
\* changes no job, Video, index row or error row.
C24_TickEnqueuesOnePerSource ==
    [][TickStep
       => /\ \A s \in SourceIds :
                CopiesIn(UpdateUnit(s), queue')
                   = CopiesIn(UpdateUnit(s), queue)
                     + (IF s \in ToUpdate THEN 1 ELSE 0)
          /\ \A w \in BagToSet(queue) \cup BagToSet(queue') :
                (\A s \in SourceIds : w # UpdateUnit(s))
                => CopiesIn(w, queue') = CopiesIn(w, queue)
          /\ UNCHANGED <<jobs, videos, indexes, errors, ended, config>>]_vars

\* two ticks have run on a site whose Feed is set to auto-update but is
\* not ACTIVE and whose SavedSearch is not set to auto-update: no unit
C24_Witness ==
    /\ sources[FEED].auto_update
    /\ sources[FEED].status # ACTIVE
    /\ ~sources[SEARCH].auto_update
    /\ inputsLeft = MaxInputs - 2
    /\ queue = EmptyBag

\* C25: no step changes the status, total_videos, videos_imported,
\* videos_skipped or auto_approve of a job that is COMPLETE or FAILED.
C25_TerminalJobIsFrozen ==
    [][\A j \in JobIds :
          jobs[j].status \in {COMPLETE, FAILED}
          => /\ jobs'[j].status = jobs[j].status
             /\ jobs'[j].total_videos = jobs[j].total_videos
             /\ jobs'[j].videos_imported = jobs[j].videos_imported
             /\ jobs'[j].videos_skipped = jobs[j].videos_skipped
             /\ jobs'[j].auto_approve = jobs[j].auto_approve]_vars

\* C26: a per-item run that builds its Video leaves exactly one new index
\* row, which links the new Video to the job of the run and stores the
\* record's position in the sequence; every Video in the table that a job
\* ingested has exactly one index row; and an index row, once there, is
\* changed by no step and removed only with its Video.
C26_OneIndexEntryPerVideo ==
    [][/\ \A u \in ItemRuns :
             (u.pc = "create" /\ Steps(u))
             => \E v \in videos' \ videos, x \in indexes' \ indexes :
                   /\ videos' \ videos = {v}
                   /\ indexes' \ indexes = {x}
                   /\ x.video = v.id
                   /\ x.source_import = u.imp
                   /\ x.index = u.idx
       /\ \A v \in videos :
             v.id[1] \in JobIds
             => Cardinality({x \in indexes : x.video = v.id}) = 1
       /\ \A x \in indexes :
             x \in indexes' \/ \A v \in videos' : v.id # x.video]_vars

\* C27: no Video that a job ingested is ACTIVE while the job is STARTED; a
\* per-item run that builds its Video saves it UNAPPROVED, the status
\* Source.update asks for; and no step of an update or of a per-item run
\* changes the status of a Video.
C27_NotActiveWhileStarted ==
    [][/\ \A v \in videos :
             (v.id[1] \in JobIds /\ jobs[v.id[1]].status = STARTED)
             => v.status # ACTIVE
       /\ \A u \in ItemRuns :
             (u.pc = "create" /\ Steps(u))
             => /\ videos' # videos
                /\ \A v \in videos' \ videos :
                      v.id[1] = u.imp /\ v.status = UNAPPROVED
       /\ \A v \in videos, w \in videos' : v.id = w.id => v.status = w.status
      ]_vars

\* C28: while a call of wrapper is in progress the installed settings are
\* those its 'settings' argument names; and when a call ends, by return,
\* raise or retry signal of the task or by an exception of the wrapper
\* itself, the installed settings and DJANGO_SETTINGS_MODULE are what they
\* were when the call began.
C28_SettingsRestored ==
    [][/\ process.frames # <<>>
          => process.wrapped = process.frames[Len(process.frames)].settings
       /\ Len(process'.frames) < Len(process.frames)
          => /\ process'.wrapped
                   = process.frames[Len(process.frames)].wrapped_before
             /\ process'.environ
                   = process.frames[Len(process.frames)].environ_before
       /\ (process' # process /\ Len(process'.frames) = Len(process.frames))
          => /\ process'.wrapped = process.wrapped
             /\ process'.environ = process.environ]_vars

\* the tag strings of a record that are not empty once stripped
NonEmpty(tags) == {i \in DOMAIN tags : strip(tags[i]).name # ""}

\* C29: after save_m2m has run on a record's tags it has not raised, and
\* the TaggedItem rows of the Video are one row for each name in the set
\* of the record's tags stripped, the empty ones left out, folded to
\* lowercase when FORCE_LOWERCASE_TAGS is set.
C29_TagsNormalizedOnce ==
    tagged.how # "none"
    => /\ tagged.how = "ok"
       /\ tagged.items
             = SetToBag({IF tagged.force THEN lower(strip(tagged.tags[i]))
                         ELSE strip(tagged.tags[i]) :
                            i \in NonEmpty(tagged.tags)})

\* C30: no step sets the total_videos of a job back to unknown once it
\* has been recorded, whatever the interleaving of Source.update with
\* mark_import_pending.
C30_TotalNeverErased ==
    [][\A j \in JobIds :
          jobs[j].total_videos # None
          => jobs'[j].total_videos # None]_vars

UpdateUnits == InQueue("feed_update") \cup InQueue("search_update")

\* the per-item units of one provider sequence of a job that are queued
SequenceUnits(q, imp, suite) ==
    {w \in ItemUnitsIn(q) : w.imp = imp /\ w.suite = suite}

Recorded(total) == IF total = None THEN 0 ELSE total

\* C31: the step of an update that goes through a sequence enqueues as
\* many per-item units as it counts records, and the step that records the
\* count leaves total_videos at the number of units enqueued for the job
\* so far: what was recorded for the earlier sequences plus this count.
C31_TotalIsUnitsEnqueued ==
    [][\A u \in UpdateUnits :
          /\ (u.pc = "load" /\ Steps(u))
             => \A w \in UpdateUnits' :
                   (w.pc = "total" /\ w.imp = u.imp)
                   => Cardinality(SequenceUnits(queue', u.imp, u.suite)) = w.n
          /\ (u.pc = "total" /\ Steps(u))
             => jobs'[u.imp].total_videos
                   = Recorded(jobs[u.imp].total_videos) + u.n]_vars

\* C32: between the steps of the units, the videos_imported of a job is
\* the number of its index rows and its videos_skipped the number of its
\* skip rows; the counts mark_import_pending writes and its save of the
\* row leave them so.
C32_CountersMatchRows ==
    \A j \in JobIds :
       /\ jobs[j].videos_imported = import_count(j)
       /\ jobs[j].videos_skipped = skipped_count(j)

\* C33: the only error a mark_import_complete unit of a job ends with is
\* the bounded hard failure, and no unit ends with it for a job that is
\* COMPLETE: the units enqueued beside the one that completes the job end
\* without an error.
C33_HardFailureOnlyIfIncomplete ==
    \A e \in ended :
       (e.task = "mark_import_complete" /\ e.imp \in JobIds)
       => /\ e.how = "MaxRetriesExceededError"
          /\ jobs[e.imp].status # COMPLETE

\* the steps of the Feed pipeline as the code wires it
FeedNext ==
    \/ update_sources
    \/ Feed_update_check
    \/ Feed_update_create
    \/ Feed_update_load
    \/ Feed_update_failed
    \/ Source_update_total
    \/ patch_settings

\* the pipeline as the code wires it, Feed and SavedSearch
Next ==
    \/ FeedNext
    \/ SavedSearch_update_check
    \/ SavedSearch_update_create
    \/ SavedSearch_update_load
    \/ SavedSearch_update_finish

\* the Feed pipeline and the two reconcilers called directly
NextPending ==
    \/ FeedNext
    \/ mark_import_pending_delay
    \/ mark_import_pending_get
    \/ mark_import_pending_count
    \/ mark_import_pending_save
    \/ mark_import_complete_delay
    \/ mark_import_complete

\* the per-item task called directly
ItemNext ==
    \/ video_from_vidscraper_video_delay
    \/ video_from_vidscraper_video_check
    \/ video_from_vidscraper_video_create

\* the Feed pipeline and the per-item task
NextItems ==
    \/ FeedNext
    \/ ItemNext

\* the Feed pipeline, the per-item task and mark_import_pending
NextCounts ==
    \/ FeedNext
    \/ ItemNext
    \/ mark_import_pending_delay
    \/ mark_import_pending_get
    \/ mark_import_pending_count
    \/ mark_import_pending_save

\* the SavedSearch pipeline and the per-item task
NextSearchItems ==
    \/ update_sources
    \/ SavedSearch_update_check
    \/ SavedSearch_update_create
    \/ SavedSearch_update_load
    \/ SavedSearch_update_finish
    \/ Source_update_total
    \/ patch_settings
    \/ ItemNext

\* the Feed pipeline, mark_import_pending called directly, and the
\* administrator's edits of the Source
NextApprove ==
    \/ FeedNext
    \/ mark_import_pending_delay
    \/ mark_import_pending_get
    \/ mark_import_pending_count
    \/ mark_import_pending_save
    \/ Source_save_auto_approve

\* the Feed pipeline and feed_update called directly
NextNewFeed ==
    \/ FeedNext
    \/ feed_update_delay

Spec == Init /\ [][Next]_vars
SpecPending == InitPending /\ [][NextPending]_vars
SpecBatch == InitBatch /\ [][FeedNext]_vars
SpecApprove == InitApprove /\ [][NextApprove]_vars
SpecNewFeed == InitNewFeed /\ [][NextNewFeed]_vars
NextSettings == wrapper_enter \/ wrapper_exit

SpecSettings == InitPending /\ [][NextSettings]_vars
SpecTags == InitPending /\ [][save_m2m]_vars
SpecTick == InitTick /\ [][Next]_vars
\* writes to the Videos and the units that bring the index up to date
NextIndex ==
    \/ Video_save
    \/ Video_delete
    \/ haystack_update_index_read
    \/ haystack_update_index_write
    \/ haystack_update_index_locked

SpecIndex == InitIndex /\ [][NextIndex]_vars

\* the calls of one process on the SiteLocation of a site
NextSites ==
    \/ SiteLocation_save
    \/ SiteLocationManager_get
    \/ SiteLocationManager_get_current
    \/ SiteLocationManager_clear_cache

SpecSites == InitSites /\ [][NextSites]_vars

\* the runs of update() on one OriginalVideo
NextOriginalVideo == OriginalVideo_update \/ Video_rename

SpecOriginalVideo == InitOriginalVideo /\ [][NextOriginalVideo]_vars

SpecCounts == InitPending /\ [][NextCounts]_vars
SpecItems == InitItems /\ [][NextItems]_vars
SpecSearchItems == InitSearchItems /\ [][NextSearchItems]_vars
====
